---- MODULE Spec2Model ----
(***************************************************************************)
(* Model of scripts/utils.py of the DeFi prime-rate analysis project:      *)
(* the retrying HTTP requester (safe_api_request), the per-pool chart      *)
(* fetch (fetch_pool_chart_data with _process_timestamp_column), the cache *)
(* reader (load_data_from_db) and the cache purge (purge_database).        *)
(*                                                                         *)
(* The program is single-threaded.  A call of a function is a sequence of  *)
(* actions of this module; `pc' is the position of the one thread.  What   *)
(* the environment decides (the outcome of a GET, whether a statement on   *)
(* the store fails) is chosen with \E inside the action that runs the      *)
(* statement.  Every call writes what it does (requests, responses,        *)
(* faults, sleeps) to `log', in program order.                             *)
(*                                                                         *)
(* Durations are in tenths of a second, so that the 2.0 s and 1.5 s of     *)
(* config.py are the integers 20 and 15.                                   *)
(***************************************************************************)
EXTENDS Integers, Sequences, FiniteSets, TLC

VARIABLES
    pc,            \* position of the thread: "idle", inside a call, or "*_done"
    log,           \* what the current call did so far, in program order
    result,        \* what the current call returned (or that it raised)
    max_retries,   \* safe_api_request: argument
    is_coingecko,  \* safe_api_request: argument
    api_key,       \* safe_api_request: argument (TRUE: a key was given)
    attempt,       \* safe_api_request: the loop variable of `for attempt in range(max_retries)'
    days,          \* fetch_pool_chart_data: argument
    now,           \* fetch_pool_chart_data: what datetime.now() gives, in days
    response,      \* fetch_pool_chart_data: the local variable `response'
    df,            \* fetch_pool_chart_data: the table returned (rows in order)
    store,         \* the SQLite file: its tables pool_data and pool_metadata
    conn,          \* the connection of the current call: "none", "open" or "closed"
    fault,         \* the statement of the current call that failed, if any
    loaded,        \* load_data_from_db: the pair (merged_df, metadata_df) returned
    purged,        \* the last call of purge_database: the store before it, its fault
    prev,          \* the call that returned last: "none", "purge", "load"
    earlier        \* what the call of load_data_from_db that returned last returned

reqVars == <<max_retries, is_coingecko, api_key, attempt>>
fetchVars == <<days, now, response, df>>
storeVars == <<store, conn, fault, loaded, purged, prev, earlier>>
vars == <<pc, log, result, reqVars, fetchVars, storeVars>>

-----------------------------------------------------------------------------
(* config.py, in tenths of a second *)

RATE_LIMIT_DELAY == 20
RATE_LIMIT_RETRY_DELAY == 50
COINGECKO_FREE_TIER_DELAY == 15
\* utils.py:224, extra_delay = 3 * attempt (seconds)
EXTRA_DELAY_UNIT == 30

(* bounds of the model *)
MaxRetries == 3
\* fetch_pool_chart_data: records of a payload, the latest day, the widest window
MaxRecords == 2
MaxTime == 3
MaxDays == 2
\* the store: rows of pool_data, rows (pools) of pool_metadata
MaxRows == 1
MaxPools == 1

-----------------------------------------------------------------------------
(* The environment: what one requests.get can do. *)

\* utils.py:48 and utils.py:43, 241
HTTP_OK == 200
HTTP_RATE_LIMITED == 429

\* the status of a response: the two the code tests for, and two others
Statuses == {HTTP_OK, HTTP_RATE_LIMITED, 404, 500}

\* what requests.get raises on a transport fault (subclasses of Exception)
TransportFaults == {"ConnectionError", "Timeout"}

(* Entries of the log.  `at' is the attempt (0-based) the entry belongs to, *)
(* `n' the status of a response or the duration of a sleep.                 *)
Get(at, key) == [ev |-> "get", at |-> at, n |-> IF key THEN 1 ELSE 0]
Resp(at, status) == [ev |-> "resp", at |-> at, n |-> status]
Fault(at) == [ev |-> "fault", at |-> at, n |-> 0]
Sleep(at, d) == [ev |-> "sleep", at |-> at, n |-> d]

(* What a call returned. *)
Pending == [kind |-> "pending", status |-> 0]
ReturnedNone == [kind |-> "None", status |-> 0]
ReturnedResponse(status) == [kind |-> "response", status |-> status]
Raised == [kind |-> "raised", status |-> 0]

\* no response yet; and the body of a response whose body is never read
EmptyBody == [shape |-> "notjson", tskind |-> "none", ts |-> <<>>]
NoResponse == [status |-> 0, body |-> EmptyBody]

(* The store.  A table that exists has columns (in order; `datelike' says  *)
(* whether the values of the column parse as dates), a set of rows, and is  *)
(* readable unless SELECT * fails on it.                                    *)
Absent == [exists |-> FALSE, readable |-> FALSE, cols |-> <<>>, rows |-> {}]
EmptyStore == [pool_data |-> Absent, pool_metadata |-> Absent]

\* no statement failed
NoFault == [at |-> "none", exc |-> "none"]

\* a column of a table; no column; None in the place of a DataFrame
NoCol == [name |-> "", datelike |-> FALSE]
NoTable == [some |-> FALSE, index |-> NoCol, datetime |-> FALSE, columns |-> <<>>, rows |-> {}]
NothingLoaded == [data |-> NoTable, meta |-> NoTable]

\* no call of purge_database is remembered
NothingPurged == [before |-> EmptyStore, fault |-> NoFault]

\* no call of load_data_from_db is remembered
NothingEarlier == [ret |-> Pending, loaded |-> NothingLoaded, fault |-> NoFault]

\* a statement on the store, or a step on a table, as an entry of the log
Stmt(name) == [ev |-> name, at |-> 0, n |-> 0]

RECURSIVE Pow2(_)
Pow2(k) == IF k <= 0 THEN 1 ELSE 2 * Pow2(k - 1)

-----------------------------------------------------------------------------
(* safe_api_request *)

\* utils.py:242: wait_time = RATE_LIMIT_RETRY_DELAY * (2 ** attempt)
WaitTimeLinear(at) == RATE_LIMIT_RETRY_DELAY * (at + 1)
WaitTime(at) == RATE_LIMIT_RETRY_DELAY * Pow2(at)

\* utils.py:223-226: the provider delay before the request of an attempt
ProviderDelayConstant(cg, at) ==
    IF cg /\ at > 0 THEN <<Sleep(at, EXTRA_DELAY_UNIT)>> ELSE <<>>
ProviderDelayUnlessRateLimited(cg, at) ==
    IF cg /\ at > 0 /\ Len(log) > 0 /\ log[Len(log)].n # WaitTime(at - 1)
    THEN <<Sleep(at, EXTRA_DELAY_UNIT * at)>> ELSE <<>>
ProviderDelay(cg, at) ==
    IF cg /\ at > 0 THEN <<Sleep(at, EXTRA_DELAY_UNIT * at)>> ELSE <<>>

\* utils.py:241
IsRateLimited(status) == status = HTTP_RATE_LIMITED

\* utils.py:243-245: the sleep after a 429, on every attempt
OnRateLimitedSkipsLast(at, maxr) ==
    IF at < maxr - 1 THEN <<Sleep(at, WaitTime(at))>> ELSE <<>>
OnRateLimited(at, maxr) == <<Sleep(at, WaitTime(at))>>

\* utils.py:247-248: the cooldown before a response is returned
CooldownAlways(cg, at) == <<Sleep(at, COINGECKO_FREE_TIER_DELAY)>>
Cooldown(cg, at) ==
    IF cg THEN <<Sleep(at, COINGECKO_FREE_TIER_DELAY)>> ELSE <<>>

\* utils.py:252: `except Exception' catches every transport fault
SarOnlyTimeoutCaught(exc) == exc = "Timeout"
SarCatches(exc) == exc \in TransportFaults

\* utils.py:253-255: the handler of `except Exception'
OnRequestExceptionGrowing(at, maxr) ==
    <<Fault(at)>> \o (IF at < maxr - 1 THEN <<Sleep(at, RATE_LIMIT_DELAY * (at + 1))>> ELSE <<>>)
OnRequestException(at, maxr) ==
    <<Fault(at)>> \o (IF at < maxr - 1 THEN <<Sleep(at, RATE_LIMIT_DELAY)>> ELSE <<>>)

\* utils.py:221: range(max_retries) starts at 0 in every call
FirstAttemptLeaks(previous) == previous
FirstAttempt(previous) == 0

\* utils.py:221: range(max_retries) still has an element for the loop variable
InRangeInclusive(at, maxr) == at <= maxr
InRange(at, maxr) == at < maxr

\* the caller calls safe_api_request(url, max_retries, is_coingecko, api_key)
SafeApiRequestCall ==
    /\ pc = "idle"
    /\ \E m \in 0..MaxRetries, cg \in BOOLEAN, key \in BOOLEAN :
         /\ max_retries' = m
         /\ is_coingecko' = cg
         /\ api_key' = key
    /\ attempt' = FirstAttempt(attempt)
    /\ log' = <<>>
    /\ result' = Pending
    /\ pc' = "sar_loop"
    /\ UNCHANGED <<fetchVars, storeVars>>

\* one iteration of the loop whose request raises (utils.py:222-235, 252-255)
SafeApiRequestFault ==
    /\ pc = "sar_loop"
    /\ InRange(attempt, max_retries)
    /\ \E exc \in TransportFaults :
         IF SarCatches(exc)
         THEN /\ log' = log \o ProviderDelay(is_coingecko, attempt)
                            \o <<Get(attempt, api_key)>>
                            \o OnRequestException(attempt, max_retries)
              /\ attempt' = attempt + 1
              /\ UNCHANGED <<pc, result>>
         ELSE \* not caught: the exception leaves safe_api_request
              /\ log' = log \o ProviderDelay(is_coingecko, attempt)
                            \o <<Get(attempt, api_key), Fault(attempt)>>
              /\ result' = Raised
              /\ pc' = "sar_done"
              /\ UNCHANGED attempt
    /\ UNCHANGED <<max_retries, is_coingecko, api_key>>
    /\ UNCHANGED <<fetchVars, storeVars>>

\* one iteration whose response is a 429 (utils.py:222-245)
SafeApiRequestRateLimited ==
    /\ pc = "sar_loop"
    /\ InRange(attempt, max_retries)
    /\ \E s \in Statuses :
         /\ IsRateLimited(s)
         /\ log' = log \o ProviderDelay(is_coingecko, attempt)
                       \o <<Get(attempt, api_key), Resp(attempt, s)>>
                       \o OnRateLimited(attempt, max_retries)
    /\ attempt' = attempt + 1
    /\ UNCHANGED <<pc, result, max_retries, is_coingecko, api_key>>
    /\ UNCHANGED <<fetchVars, storeVars>>

\* one iteration whose response is returned (utils.py:222-250)
SafeApiRequestResponse ==
    /\ pc = "sar_loop"
    /\ InRange(attempt, max_retries)
    /\ \E s \in Statuses :
         /\ ~IsRateLimited(s)
         /\ log' = log \o ProviderDelay(is_coingecko, attempt)
                       \o <<Get(attempt, api_key), Resp(attempt, s)>>
                       \o Cooldown(is_coingecko, attempt)
         /\ result' = ReturnedResponse(s)
    /\ pc' = "sar_done"
    /\ UNCHANGED <<max_retries, is_coingecko, api_key, attempt>>
    /\ UNCHANGED <<fetchVars, storeVars>>

\* the loop is exhausted (utils.py:257)
SafeApiRequestExhausted ==
    /\ pc = "sar_loop"
    /\ ~InRange(attempt, max_retries)
    /\ result' = ReturnedNone
    /\ pc' = "sar_done"
    /\ UNCHANGED <<log, max_retries, is_coingecko, api_key, attempt>>
    /\ UNCHANGED <<fetchVars, storeVars>>

\* the caller goes on with the value returned
SafeApiRequestReturn ==
    /\ pc = "sar_done"
    /\ pc' = "idle"
    /\ UNCHANGED <<log, result, max_retries, is_coingecko, api_key, attempt>>
    /\ UNCHANGED <<fetchVars, storeVars>>

-----------------------------------------------------------------------------

InitCalls ==
    /\ pc = "idle"
    /\ log = <<>>
    /\ result = Pending
    /\ max_retries = 0
    /\ is_coingecko = FALSE
    /\ api_key = FALSE
    /\ attempt = 0
    /\ days = 0
    /\ now = 0
    /\ response = NoResponse
    /\ df = <<>>
    /\ conn = "none"
    /\ fault = NoFault
    /\ loaded = NothingLoaded
    /\ purged = NothingPurged
    /\ prev = "none"
    /\ earlier = NothingEarlier

\* safe_api_request does not touch the store
InitRequester == InitCalls /\ store = EmptyStore

NextRequester ==
    \/ SafeApiRequestCall
    \/ SafeApiRequestFault
    \/ SafeApiRequestRateLimited
    \/ SafeApiRequestResponse
    \/ SafeApiRequestExhausted
    \/ SafeApiRequestReturn

SpecRequester == InitRequester /\ [][NextRequester]_vars

\* a call that has started goes on: the thread runs the loop, a sleep ends,
\* and a request ends with a response or a fault
SpecRequesterFair ==
    SpecRequester /\ WF_vars(\/ SafeApiRequestFault
                             \/ SafeApiRequestRateLimited
                             \/ SafeApiRequestResponse
                             \/ SafeApiRequestExhausted)

-----------------------------------------------------------------------------
(* Claims about safe_api_request, checked under SpecRequester. *)

\* the positions of the log that hold an entry of kind ev
At(ev) == {i \in 1..Len(log) : log[i].ev = ev}

\* the responses that are not a 429
NonRateLimited == {i \in At("resp") : log[i].n # HTTP_RATE_LIMITED}

InSafeApiRequest == pc \in {"sar_loop", "sar_done"}

\* C1: a call of safe_api_request issues at most max_retries GET requests;
\* the first response that is not a 429 is the value returned, whatever its
\* status, and no request follows it; without such a response the call does
\* not return a response.
C1_AtMostMaxRetriesFirstNon429 ==
    InSafeApiRequest =>
        /\ Cardinality(At("get")) <= max_retries
        /\ \A i \in NonRateLimited :
             /\ pc = "sar_done"
             /\ result = ReturnedResponse(log[i].n)
             /\ \A j \in At("get") : j < i
             /\ \A j \in NonRateLimited : j = i
        /\ (pc = "sar_done" /\ NonRateLimited = {}) => result.kind # "response"

\* C1 witness: the third attempt of three is answered with a 500, which is returned
C1_Witness ==
    /\ pc = "sar_done"
    /\ max_retries = 3
    /\ Cardinality(At("get")) = 3
    /\ result = ReturnedResponse(500)
    /\ \E i \in At("resp") : log[i].n = HTTP_RATE_LIMITED
    /\ At("fault") # {}

\* C2: a 429 received on attempt k is followed at once, before any further
\* request, by a sleep of RATE_LIMIT_RETRY_DELAY * 2^k (5 s, 10 s, 20 s, in
\* tenths of a second), and a 429 is never the value returned.
C2_ExponentialBackoffAfter429 ==
    InSafeApiRequest =>
        /\ \A i \in At("resp") :
             log[i].n = HTTP_RATE_LIMITED =>
                /\ i < Len(log)
                /\ log[i + 1] = Sleep(log[i].at, RATE_LIMIT_RETRY_DELAY * Pow2(log[i].at))
                /\ log[i].at = 0 => log[i + 1].n = 50
                /\ log[i].at = 1 => log[i + 1].n = 100
                /\ log[i].at = 2 => log[i + 1].n = 200
        /\ ~(result.kind = "response" /\ result.status = HTTP_RATE_LIMITED)

\* C2 witness: 429 on attempts 0, 1 and 2, each followed by its sleep, and
\* requests issued after the first two
C2_Witness ==
    /\ pc = "sar_loop"
    /\ \E i, j, k \in At("resp") :
         /\ log[i].at = 0 /\ log[j].at = 1 /\ log[k].at = 2
         /\ log[i].n = HTTP_RATE_LIMITED
         /\ log[j].n = HTTP_RATE_LIMITED
         /\ log[k].n = HTTP_RATE_LIMITED
         /\ log[k + 1] = Sleep(2, 200)
         /\ log[i + 2].ev = "get"

\* C3: a call all of whose attempts end in a 429 or in a transport fault
\* returns None; no call leaves safe_api_request by an exception.
C3_ExhaustedReturnsNone ==
    InSafeApiRequest =>
        /\ result.kind # "raised"
        /\ (pc = "sar_done" /\ NonRateLimited = {}) => result = ReturnedNone

\* C3 witness: three attempts, both a 429 and each kind of transport fault, then None
C3_Witness ==
    /\ pc = "sar_done"
    /\ result = ReturnedNone
    /\ Cardinality(At("get")) = 3
    /\ At("fault") # {}
    /\ \E i \in At("resp") : log[i].n = HTTP_RATE_LIMITED

-----------------------------------------------------------------------------
(* fetch_pool_chart_data and _process_timestamp_column                      *)
(*                                                                         *)
(* Time is counted in days.  The body of a 200 response is one of:         *)
(*   "notjson"         response.json() raises                              *)
(*   "dict"            a JSON object without a 'data' field                *)
(*   "scalar"          a JSON value that is neither an object nor a list   *)
(*   "wrapped_scalar"  {'data': v}, v not a list                           *)
(*   "wrapped_list"    {'data': [records]}                                 *)
(*   "list"            [records]                                           *)
(* The records of a list have the same fields: tskind says what their      *)
(* 'timestamp' field holds ("none": no such field, "epoch": a number of    *)
(* the epoch, "datestr": a date string, "tzstr": a date string with a UTC  *)
(* offset, "bad": a string that is no date), ts the time each stands for.  *)

Times == 0..MaxTime

SeqsUpTo(S, n) == UNION {[1..k -> S] : k \in 0..n}

ListBodies ==
    {[shape |-> sh, tskind |-> "none", ts |-> <<>>] : sh \in {"list", "wrapped_list"}}
    \cup {[shape |-> sh, tskind |-> k, ts |-> t] :
            sh \in {"list", "wrapped_list"},
            k \in {"none", "epoch", "datestr", "tzstr", "bad"},
            t \in SeqsUpTo(Times, MaxRecords) \ {<<>>}}

Bodies ==
    {[shape |-> sh, tskind |-> "none", ts |-> <<>>] :
        sh \in {"notjson", "dict", "scalar", "wrapped_scalar"}}
    \cup ListBodies

\* what the try block of fetch_pool_chart_data can raise
FetchExceptions == TransportFaults \cup {"JSONDecodeError"}

\* utils.py:77: `except Exception' catches each of them
FpcOnlyTransportCaught(exc) == exc \in TransportFaults
FpcCatches(exc) == exc \in FetchExceptions

\* utils.py:43
FpcRetryOnAnyError(status) == status # HTTP_OK
FpcRateLimited(status) == status = HTTP_RATE_LIMITED

\* utils.py:51-52: a wrapper object with a 'data' field is unwrapped
Unwrap(body) ==
    IF body.shape = "wrapped_list" THEN [body EXCEPT !.shape = "list"]
    ELSE IF body.shape = "wrapped_scalar" THEN [body EXCEPT !.shape = "scalar"]
    ELSE body

\* utils.py:54
IsNonEmptyList(data) == data.shape = "list" /\ Len(data.ts) > 0

\* utils.py:55: one row per record, in the order of the payload
DataFrame(data) == [i \in 1..Len(data.ts) |-> [timestamp |-> data.ts[i], rec |-> i]]

\* utils.py:57
HasTimestampColumn(data) == data.tskind # "none"

\* utils.py:94: pd.to_datetime(df['timestamp'], unit='s') takes numbers only
EpochParses(tskind) == tskind = "epoch"

\* utils.py:97: pd.to_datetime(df['timestamp']) takes numbers and date strings
GenericParsesAnything(tskind) == TRUE
GenericParses(tskind) == tskind \in {"epoch", "datestr", "tzstr"}

\* utils.py:93-107: the 'date' column becomes the index, its UTC offset dropped;
\* None when neither interpretation parses
ProcessTimestampColumn(rows, tskind) ==
    LET indexed == [i \in 1..Len(rows) |-> [date |-> rows[i].timestamp, rec |-> rows[i].rec]]
        first == <<Stmt("parse_epoch")>>
        both == <<Stmt("parse_epoch"), Stmt("parse_generic")>>
    IN  IF EpochParses(tskind)
        THEN [ok |-> TRUE, via |-> "epoch", rows |-> indexed, tried |-> first]
        ELSE IF GenericParses(tskind)
        THEN [ok |-> TRUE, via |-> "generic", rows |-> indexed, tried |-> both]
        ELSE [ok |-> FALSE, via |-> "none", rows |-> <<>>, tried |-> both]

\* utils.py:62: cutoff_date = datetime.now() - timedelta(days=days)
CutoffDate(n, d) == n - d

\* utils.py:63: df = df[df.index >= cutoff_date]; the order of the rows is kept
KeepFromCutoff(rows, cutoff) == SelectSeq(rows, LAMBDA r : r.date >= cutoff)

ReturnedTable == [kind |-> "table", status |-> 0]

\* utils.py:48-75: what the call returns for the final response
ProcessResponse(resp, n, d) ==
    IF resp.status # HTTP_OK THEN [ret |-> ReturnedNone, rows |-> <<>>, steps |-> <<>>]
    ELSE IF resp.body.shape = "notjson"
    THEN [ret |-> IF FpcCatches("JSONDecodeError") THEN ReturnedNone ELSE Raised,
          rows |-> <<>>, steps |-> <<>>]
    ELSE LET data == Unwrap(resp.body) IN
         IF ~IsNonEmptyList(data) THEN [ret |-> ReturnedNone, rows |-> <<>>, steps |-> <<>>]
         ELSE IF ~HasTimestampColumn(data)
         THEN [ret |-> ReturnedNone, rows |-> <<>>, steps |-> <<>>]
         ELSE LET processed == ProcessTimestampColumn(DataFrame(data), data.tskind) IN
              IF ~processed.ok
              THEN [ret |-> ReturnedNone, rows |-> <<>>, steps |-> processed.tried]
              ELSE [ret |-> ReturnedTable,
                    rows |-> KeepFromCutoff(processed.rows, CutoffDate(n, d)),
                    steps |-> processed.tried \o <<Stmt("filter")>>]

\* the caller calls fetch_pool_chart_data(pool_id, pool_name, days)
FetchCall ==
    /\ pc = "idle"
    /\ \E d \in 1..MaxDays, n \in 1..(MaxTime - 1) :
         /\ days' = d
         /\ now' = n
    /\ response' = NoResponse
    /\ df' = <<>>
    /\ log' = <<>>
    /\ result' = Pending
    /\ pc' = "fpc_get1"
    /\ UNCHANGED reqVars
    /\ UNCHANGED storeVars

\* requests.get raises, on the first request or on the retry (utils.py:41, 46, 77-79)
FetchGetFault ==
    /\ pc \in {"fpc_get1", "fpc_get2"}
    /\ \E exc \in TransportFaults :
         /\ log' = log \o (IF pc = "fpc_get1"
                           THEN <<Get(0, FALSE), Fault(0)>>
                           ELSE <<Get(1, FALSE), Fault(1)>>)
         /\ result' = IF FpcCatches(exc) THEN ReturnedNone ELSE Raised
    /\ pc' = "fpc_done"
    /\ UNCHANGED <<reqVars, fetchVars>>
    /\ UNCHANGED storeVars

\* the first response is a 429: sleep, then retry (utils.py:41-45)
FetchRateLimited ==
    /\ pc = "fpc_get1"
    /\ \E s \in Statuses :
         /\ FpcRateLimited(s)
         /\ response' = [status |-> s, body |-> EmptyBody]
         /\ log' = log \o <<Get(0, FALSE), Resp(0, s), Sleep(0, RATE_LIMIT_RETRY_DELAY)>>
    /\ pc' = "fpc_get2"
    /\ UNCHANGED <<result, reqVars, days, now, df>>
    /\ UNCHANGED storeVars

\* the response the call goes on with: the first unless it is a 429, or the
\* second whatever it is (utils.py:41-46)
FetchResponse ==
    /\ pc \in {"fpc_get1", "fpc_get2"}
    /\ \E s \in Statuses, b \in Bodies :
         /\ pc = "fpc_get1" => ~FpcRateLimited(s)
         /\ s # HTTP_OK => b = EmptyBody
         /\ response' = [status |-> s, body |-> b]
         /\ log' = log \o (IF pc = "fpc_get1"
                           THEN <<Get(0, FALSE), Resp(0, s)>>
                           ELSE <<Get(1, FALSE), Resp(1, s)>>)
    /\ pc' = "fpc_handle"
    /\ UNCHANGED <<result, reqVars, days, now, df>>
    /\ UNCHANGED storeVars

\* the final response is turned into the value returned (utils.py:48-79)
FetchHandle ==
    /\ pc = "fpc_handle"
    /\ result' = ProcessResponse(response, now, days).ret
    /\ df' = ProcessResponse(response, now, days).rows
    /\ log' = log \o ProcessResponse(response, now, days).steps
    /\ pc' = "fpc_done"
    /\ UNCHANGED <<reqVars, days, now, response>>
    /\ UNCHANGED storeVars

\* the caller goes on with the value returned
FetchReturn ==
    /\ pc = "fpc_done"
    /\ pc' = "idle"
    /\ UNCHANGED <<log, result, reqVars, fetchVars>>
    /\ UNCHANGED storeVars

NextFetch ==
    \/ FetchCall
    \/ FetchGetFault
    \/ FetchRateLimited
    \/ FetchResponse
    \/ FetchHandle
    \/ FetchReturn

\* fetch_pool_chart_data does not touch the store
InitFetch == InitCalls /\ store = EmptyStore

SpecFetch == InitFetch /\ [][NextFetch]_vars

-----------------------------------------------------------------------------
(* Claims about fetch_pool_chart_data, checked under SpecFetch. *)

InFetch == pc \in {"fpc_get1", "fpc_get2", "fpc_handle", "fpc_done"}

\* the records of the final response whose date lies in [now - days, now]
InWindow == {i \in 1..Len(response.body.ts) :
                now - days <= response.body.ts[i] /\ response.body.ts[i] <= now}

\* C6: the table returned for a 200 response with N >= 1 records whose
\* timestamps parse holds exactly the records dated within [now - days, now],
\* in ascending order of date, no date twice.
C6_ExactWindowSortedUnique ==
    (pc = "fpc_done" /\ result = ReturnedTable) =>
        /\ {df[i].rec : i \in 1..Len(df)} = InWindow
        /\ \A i, j \in 1..Len(df) : i < j => df[i].date < df[j].date

\* C7: a call issues at most two GET requests; the second one exactly when the
\* first response was a 429, after one sleep of RATE_LIMIT_RETRY_DELAY; any
\* other first response is final, and a second 429 ends the call with None.
C7_OneRetryOn429Only ==
    InFetch =>
        /\ Cardinality(At("get")) <= 2
        /\ Cardinality(At("get")) = 2 =>
             /\ log[1].ev = "get"
             /\ log[2] = Resp(0, HTTP_RATE_LIMITED)
             /\ log[3] = Sleep(0, RATE_LIMIT_RETRY_DELAY)
             /\ log[4].ev = "get"
             /\ Cardinality(At("sleep")) = 1
        /\ \A i \in At("sleep") :
             i = 3 /\ log[2] = Resp(0, HTTP_RATE_LIMITED)
                   /\ log[3] = Sleep(0, RATE_LIMIT_RETRY_DELAY)
        /\ (pc \in {"fpc_handle", "fpc_done"} /\ Len(log) >= 2
              /\ log[2] = Resp(0, HTTP_RATE_LIMITED)) => Cardinality(At("get")) = 2
        /\ (pc = "fpc_done" /\ response.status # HTTP_OK) => result = ReturnedNone
        /\ (pc = "fpc_done" /\ response.status = HTTP_RATE_LIMITED /\ At("fault") = {}) =>
             Cardinality(At("get")) = 2

\* C7 witness: 429, one sleep, then a second 429 and None
C7_Witness ==
    /\ pc = "fpc_done"
    /\ log = <<Get(0, FALSE), Resp(0, HTTP_RATE_LIMITED), Sleep(0, RATE_LIMIT_RETRY_DELAY),
               Get(1, FALSE), Resp(1, HTTP_RATE_LIMITED)>>
    /\ result = ReturnedNone

\* C8: no call leaves fetch_pool_chart_data by an exception; a table is
\* returned only for a final response that is a 200 whose body is a non-empty
\* list of records (bare or under 'data') with a timestamp that parses; a
\* transport fault on either request gives None.
C8_NeverRaisesNoneOnFailure ==
    InFetch =>
        /\ result.kind # "raised"
        /\ pc = "fpc_done" =>
             /\ result \in {ReturnedNone, ReturnedTable}
             /\ At("fault") # {} => result = ReturnedNone
             /\ result = ReturnedTable =>
                  /\ response.status = HTTP_OK
                  /\ response.body.shape \in {"list", "wrapped_list"}
                  /\ Len(response.body.ts) > 0
                  /\ response.body.tskind \in {"epoch", "datestr", "tzstr"}
             /\ result = ReturnedNone => df = <<>>

\* C8 witness: the retry is answered with a 200 whose body is no JSON, and
\* the call returns None
C8_Witness ==
    /\ pc = "fpc_done"
    /\ result = ReturnedNone
    /\ Cardinality(At("get")) = 2
    /\ response.status = HTTP_OK
    /\ response.body.shape = "notjson"

-----------------------------------------------------------------------------
(* The store, load_data_from_db and purge_database                          *)

Col(name, datelike) == [name |-> name, datelike |-> datelike]

\* the column layouts of pool_data: the index column first and named 'index'
\* (what DataFrame.to_sql writes), with or without dates in it, under another
\* name, not first, or missing
Layouts ==
    { <<Col("index", TRUE), Col("p0", FALSE)>>,
      <<Col("index", FALSE), Col("p0", FALSE)>>,
      <<Col("date", TRUE), Col("p0", FALSE)>>,
      <<Col("p0", FALSE), Col("index", TRUE)>>,
      <<Col("id", FALSE), Col("p0", FALSE)>> }

PoolDataTables ==
    {Absent} \cup {[exists |-> TRUE, readable |-> r, cols |-> c, rows |-> w] :
                     r \in BOOLEAN, c \in Layouts, w \in SUBSET (1..MaxRows)}

PoolMetadataTables ==
    {Absent} \cup {[exists |-> TRUE, readable |-> r,
                    cols |-> <<Col("pool_id", FALSE), Col("name", FALSE)>>, rows |-> w] :
                     r \in BOOLEAN, w \in SUBSET (1..MaxPools)}

Stores == [pool_data : PoolDataTables, pool_metadata : PoolMetadataTables]

\* what a statement on the store raises when it fails (subclasses of Exception)
StoreExceptions == {"OperationalError", "DatabaseError"}

Failure(at, exc) == [at |-> at, exc |-> exc]

\* the statements of load_data_from_db that fail for reasons outside the
\* tables (utils.py:122, 125, 142); the reads of the two tables fail when the
\* table is absent or unreadable
LoadFaults ==
    {NoFault} \cup {Failure(at, exc) :
                      at \in {"connect", "sqlite_master", "pragma"}, exc \in StoreExceptions}

\* the statements of purge_database that can fail (utils.py:192-201)
PurgeFaults ==
    {NoFault} \cup {Failure(at, exc) :
                      at \in {"connect", "drop_data", "drop_meta", "vacuum", "commit", "close"},
                      exc \in StoreExceptions}

ReturnedNonePair == [kind |-> "None, None", status |-> 0]
ReturnedTables == [kind |-> "tables", status |-> 0]

\* utils.py:166: `except Exception' of load_data_from_db
LoadCatches(exc) == exc \in StoreExceptions

HasColumn(t, name) == \E i \in 1..Len(t.cols) : t.cols[i].name = name

ColumnNamed(t, name) == t.cols[CHOOSE i \in 1..Len(t.cols) : t.cols[i].name = name]

\* utils.py:130: pd.read_sql('SELECT * FROM pool_data', conn, index_col='index')
IndexedReadOk(t) == t.exists /\ t.readable /\ HasColumn(t, "index")

IndexedRead(t) ==
    [some |-> TRUE, index |-> ColumnNamed(t, "index"), datetime |-> FALSE,
     columns |-> SelectSeq(t.cols, LAMBDA c : c.name # "index"), rows |-> t.rows]

\* utils.py:133
PlainReadOk(t) == t.exists /\ t.readable

\* utils.py:133-139: the first column becomes the index, whatever its name
PlainReadDateNamedOnly(t) ==
    [some |-> TRUE,
     index |-> IF t.cols[1].name \in {"date", "timestamp"} THEN t.cols[1] ELSE NoCol,
     datetime |-> FALSE,
     columns |-> IF t.cols[1].name \in {"date", "timestamp"} THEN Tail(t.cols) ELSE t.cols,
     rows |-> t.rows]
PlainRead(t) ==
    [some |-> TRUE, index |-> t.cols[1], datetime |-> FALSE,
     columns |-> Tail(t.cols), rows |-> t.rows]

\* utils.py:129-147
ReadPoolData(t) ==
    IF IndexedReadOk(t) THEN IndexedRead(t)
    ELSE IF PlainReadOk(t) THEN PlainRead(t)
    ELSE NoTable

\* utils.py:149-153: the index becomes a DatetimeIndex if its values parse
CoerceIndex(frame) == [frame EXCEPT !.datetime = frame.index.datelike]

\* utils.py:157-159: a failed read of pool_metadata does not end the call
MetadataFailureAborts == TRUE
MetadataFailureIsFatal == FALSE

\* utils.py:155-159
EmptyDataFrame == [some |-> TRUE, index |-> NoCol, datetime |-> FALSE, columns |-> <<>>, rows |-> {}]

ReadMetadataOk(t) == t.exists /\ t.readable

ReadMetadata(t) ==
    IF ReadMetadataOk(t)
    THEN [some |-> TRUE, index |-> NoCol, datetime |-> FALSE, columns |-> t.cols, rows |-> t.rows]
    ELSE EmptyDataFrame

\* utils.py:161: conn.close() on the path that returns the tables
ConnAfterLoadSuccess == "closed"

\* utils.py:129-142: the statements on pool_data, in the order they are run:
\* the indexed read, the plain read if that failed, PRAGMA table_info if both did
PoolDataStatements(t) ==
    <<Stmt("read_indexed")>>
    \o (IF IndexedReadOk(t) THEN <<>> ELSE <<Stmt("read_plain")>>)
    \o (IF ReadPoolData(t).some THEN <<>> ELSE <<Stmt("pragma")>>)

\* utils.py:122-161: load_data_from_db runs SELECT and PRAGMA table_info only
StoreAfterDestructiveRead(st) == [st EXCEPT !.pool_data.rows = {}]
StoreAfterLoad(st) == st

\* utils.py:120-168: the whole call on store st, with failure f
LoadOutcome(st, f) ==
    LET failed(conn_state, stmts) ==
            [ret |-> IF LoadCatches(f.exc) THEN ReturnedNonePair ELSE Raised,
             conn |-> conn_state, loaded |-> NothingLoaded, stmts |-> stmts]
        frame == ReadPoolData(st.pool_data)
        opened == <<Stmt("connect"), Stmt("sqlite_master")>>
        read == opened \o PoolDataStatements(st.pool_data)
    IN  IF f.at = "connect" THEN failed("none", <<Stmt("connect")>>)
        ELSE IF f.at = "sqlite_master" THEN failed("open", opened)
        ELSE IF ~frame.some
             THEN IF f.at = "pragma" THEN failed("open", read)
                  ELSE [ret |-> ReturnedNonePair, conn |-> "open",
                        loaded |-> NothingLoaded, stmts |-> read]
        ELSE IF ~ReadMetadataOk(st.pool_metadata) /\ MetadataFailureIsFatal
             THEN [ret |-> ReturnedNonePair, conn |-> "open", loaded |-> NothingLoaded,
                   stmts |-> read \o <<Stmt("read_metadata")>>]
        ELSE [ret |-> ReturnedTables, conn |-> ConnAfterLoadSuccess,
              loaded |-> [data |-> CoerceIndex(frame),
                          meta |-> ReadMetadata(st.pool_metadata)],
              stmts |-> read \o <<Stmt("read_metadata"), Stmt("close")>>]

\* the caller calls load_data_from_db(db_filename) (utils.py:110-168)
LoadDataFromDb ==
    /\ pc = "idle"
    /\ \E f \in LoadFaults :
         \* PRAGMA table_info is only run after both reads of pool_data failed
         /\ f.at = "pragma" => ~ReadPoolData(store.pool_data).some
         /\ fault' = f
         /\ result' = LoadOutcome(store, f).ret
         /\ conn' = LoadOutcome(store, f).conn
         /\ loaded' = LoadOutcome(store, f).loaded
         /\ log' = LoadOutcome(store, f).stmts
    /\ store' = StoreAfterLoad(store)
    /\ pc' = "load_done"
    /\ UNCHANGED <<purged, prev, earlier, reqVars, fetchVars>>

\* the caller goes on with the pair returned; the locals of the call are gone
LoadReturn ==
    /\ pc = "load_done"
    /\ pc' = "idle"
    /\ prev' = "load"
    /\ result' = Pending
    /\ conn' = "none"
    /\ fault' = NoFault
    /\ loaded' = NothingLoaded
    /\ purged' = NothingPurged
    /\ earlier' = [ret |-> result, loaded |-> loaded, fault |-> fault]
    /\ UNCHANGED <<log, store, reqVars, fetchVars>>

\* utils.py:203: `except Exception' of purge_database
PurgeCatches(exc) == exc \in StoreExceptions

\* utils.py:195-196: DROP TABLE IF EXISTS does not fail on a missing table
DropErrorsWhenMissing(t) == ~t.exists
DropErrors(t) == FALSE

\* utils.py:195-196: the table is gone (DDL is not held back in a transaction)
KeepTable(t) == t
DropIfExists(t) == Absent

\* utils.py:190-204: the whole call on store st, with failure f
PurgeOutcome(st, f) ==
    LET stopped(s, conn_state, exc) ==
            [ret |-> IF PurgeCatches(exc) THEN ReturnedNone ELSE Raised,
             conn |-> conn_state, store |-> s]
        s1 == [st EXCEPT !.pool_data = DropIfExists(@)]
        s2 == [s1 EXCEPT !.pool_metadata = DropIfExists(@)]
    IN  IF f.at = "connect" THEN stopped(st, "none", f.exc)
        ELSE IF f.at = "drop_data" THEN stopped(st, "open", f.exc)
        ELSE IF DropErrors(st.pool_data) THEN stopped(st, "open", "OperationalError")
        ELSE IF f.at = "drop_meta" THEN stopped(s1, "open", f.exc)
        ELSE IF DropErrors(s1.pool_metadata) THEN stopped(s1, "open", "OperationalError")
        ELSE IF f.at \in {"vacuum", "commit", "close"} THEN stopped(s2, "open", f.exc)
        ELSE [ret |-> ReturnedNone, conn |-> "closed", store |-> s2]

\* the caller calls purge_database(db_filename) (utils.py:183-204)
PurgeDatabase ==
    /\ pc = "idle"
    /\ \E f \in PurgeFaults :
         /\ fault' = f
         /\ result' = PurgeOutcome(store, f).ret
         /\ conn' = PurgeOutcome(store, f).conn
         /\ store' = PurgeOutcome(store, f).store
         /\ purged' = [before |-> store, fault |-> f]
    /\ log' = <<>>
    /\ loaded' = NothingLoaded
    /\ earlier' = NothingEarlier
    /\ pc' = "purge_done"
    /\ UNCHANGED <<prev, reqVars, fetchVars>>

\* purge_database returns to its caller; the locals of the call are gone
PurgeReturn ==
    /\ pc = "purge_done"
    /\ pc' = "idle"
    /\ prev' = "purge"
    /\ result' = Pending
    /\ conn' = "none"
    /\ fault' = NoFault
    /\ UNCHANGED <<log, store, loaded, purged, earlier, reqVars, fetchVars>>

InitStore == InitCalls /\ store \in Stores

NextStore ==
    \/ LoadDataFromDb
    \/ LoadReturn
    \/ PurgeDatabase
    \/ PurgeReturn

SpecStore == InitStore /\ [][NextStore]_vars

-----------------------------------------------------------------------------
(* Claims about purge_database and load_data_from_db, checked under SpecStore. *)

\* the call of load_data_from_db that has just finished directly followed a
\* call of purge_database
LoadRightAfterPurge == pc = "load_done" /\ prev = "purge"

\* the purge failed before pool_data was dropped
PurgeFailedBeforeDrop == purged.fault.at \in {"connect", "drop_data"}

C5_ConnectionClosedOnEveryReturn ==
    pc = "load_done" => conn # "open"

\* C9: purge_database returns normally from every store state and under every
\* failure; when no statement fails, or only one after the two DROPs, neither
\* table exists afterwards, whichever of them existed before.
C9_PurgeNeverRaisesDropsBoth ==
    pc = "purge_done" =>
        /\ result = ReturnedNone
        /\ fault.at \in {"none", "vacuum", "commit", "close"} =>
             (~store.pool_data.exists /\ ~store.pool_metadata.exists)
        /\ fault = NoFault => conn = "closed"

\* C9 witness: only pool_metadata existed; the purge runs without failure and
\* leaves no table
C9_Witness ==
    /\ pc = "purge_done"
    /\ fault = NoFault
    /\ ~purged.before.pool_data.exists
    /\ purged.before.pool_metadata.exists
    /\ store = EmptyStore
    /\ result = ReturnedNone

\* C10: when the store opens and pool_data is read but pool_metadata is absent
\* or unreadable, load_data_from_db returns the pool_data table with an empty
\* metadata table, not (None, None).
C10_MetadataFailureNotFatal ==
    (/\ pc = "load_done"
     /\ fault.at \notin {"connect", "sqlite_master"}
     /\ store.pool_data.exists /\ store.pool_data.readable
     /\ ~(store.pool_metadata.exists /\ store.pool_metadata.readable)) =>
        /\ result = ReturnedTables
        /\ loaded.data.some
        /\ loaded.data.rows = store.pool_data.rows
        /\ loaded.meta.some
        /\ loaded.meta.rows = {}
        /\ loaded.meta.columns = <<>>

\* C10 witness: pool_data holds rows, pool_metadata exists but cannot be read
C10_Witness ==
    /\ pc = "load_done"
    /\ store.pool_data.readable
    /\ store.pool_data.rows # {}
    /\ store.pool_metadata.exists
    /\ ~store.pool_metadata.readable
    /\ store.pool_metadata.rows # {}
    /\ result = ReturnedTables

\* the call of load_data_from_db that has just finished directly followed
\* another one
LoadRightAfterLoad == pc = "load_done" /\ prev = "load"

C15_FallbackReadOnce ==
    pc = "load_done" =>
        LET reads == {i \in 1..Len(log) : log[i].ev \in {"read_indexed", "read_plain"}}
            plain == At("read_plain")
            indexed == At("read_indexed")
            t == store.pool_data
            indexedOk == t.exists /\ t.readable /\ HasColumn(t, "index")
        IN  /\ Cardinality(indexed) <= 1 /\ Cardinality(plain) <= 1
            /\ \A i \in plain : i - 1 \in indexed
            /\ indexed # {} => (plain # {} <=> ~indexedOk)
            /\ (plain = {} /\ loaded.data.some) => loaded.data.index.name = "index"
            /\ (plain # {} /\ t.exists /\ t.readable) =>
                   (loaded.data.some /\ loaded.data.index = t.cols[1])
            /\ (plain # {} /\ ~(t.exists /\ t.readable)) =>
                   (result = ReturnedNonePair /\ loaded = NothingLoaded)
            /\ loaded.data.some <=> loaded.meta.some
            /\ result = ReturnedTables <=> loaded.data.some
            /\ result \in {ReturnedTables, ReturnedNonePair}

\* C15 witness: pool_data has no column 'index'; the plain read makes the
\* column 'id' the index
C15_Witness ==
    /\ pc = "load_done"
    /\ At("read_indexed") # {}
    /\ At("read_plain") # {}
    /\ result = ReturnedTables
    /\ loaded.data.index.name = "id"
    /\ loaded.data.rows # {}

-----------------------------------------------------------------------------
(* Claims about the sleeps of safe_api_request, checked under SpecRequester *)
(* (C19 under SpecRequesterFair).                                           *)

\* the sum of the sleeps of a log
RECURSIVE SleepTotal(_)
SleepTotal(l) ==
    IF l = <<>> THEN 0
    ELSE (IF Head(l).ev = "sleep" THEN Head(l).n ELSE 0) + SleepTotal(Tail(l))

\* the 429 responses
RateLimitedResponses == {i \in At("resp") : log[i].n = HTTP_RATE_LIMITED}

\* C12: a transport fault on attempt k < max_retries - 1 is followed by one
\* sleep of RATE_LIMIT_DELAY (2 s, whatever k), and what follows belongs to
\* attempt k + 1; a fault on the last attempt is the last thing the call
\* does, and the call returns None.
C12_FixedDelayAfterFault ==
    InSafeApiRequest =>
        \A i \in At("fault") :
            LET k == log[i].at IN
            IF k < max_retries - 1
            THEN /\ i < Len(log)
                 /\ log[i + 1] = Sleep(k, RATE_LIMIT_DELAY)
                 /\ log[i + 1].n = 20
                 /\ i + 2 <= Len(log) => log[i + 2].at = k + 1
            ELSE /\ i = Len(log)
                 /\ pc = "sar_done" => result = ReturnedNone

\* C12 witness: faults on attempts 0, 1 and 2 of three, 2 s after each of the
\* first two, none after the third, None returned
C12_Witness ==
    /\ pc = "sar_done"
    /\ max_retries = 3
    /\ ~is_coingecko
    /\ Cardinality(At("fault")) = 3
    /\ SleepTotal(log) = 40
    /\ log[Len(log)].ev = "fault"
    /\ result = ReturnedNone

\* C13: with is_coingecko the request of every attempt k >= 1 comes directly
\* after a sleep of 3 * k seconds that belongs to attempt k; the request of
\* attempt 0 is the first thing the call does; without is_coingecko nothing
\* of an attempt precedes its request.
C13_LinearProviderDelay ==
    InSafeApiRequest =>
        \A i \in At("get") :
            LET k == log[i].at IN
            /\ k = 0 => i = 1
            /\ (is_coingecko /\ k >= 1) =>
                 /\ log[i - 1] = Sleep(k, 30 * k)
                 /\ log[i - 2].at = k - 1
            /\ (~is_coingecko /\ k >= 1) => log[i - 1].at = k - 1

\* C13 witness: with is_coingecko, the third request, 6 s after the second attempt
C13_Witness ==
    /\ is_coingecko
    /\ \E i \in At("get") : log[i].at = 2 /\ log[i - 1] = Sleep(2, 60)
    /\ \E i \in At("get") : log[i].at = 1 /\ log[i - 1] = Sleep(1, 30)
    /\ At("fault") # {}
    /\ RateLimitedResponses # {}

\* the sleeps of COINGECKO_FREE_TIER_DELAY (no other sleep lasts 1.5 s)
Cooldowns == {i \in At("sleep") : log[i].n = COINGECKO_FREE_TIER_DELAY}

\* C14: a call with is_coingecko that returns a response sleeps
\* COINGECKO_FREE_TIER_DELAY exactly once, as the last thing it does, right
\* after the response it returns; no other call sleeps that long, and no such
\* sleep follows a 429.
C14_CooldownOncePerResponse ==
    InSafeApiRequest =>
        /\ (pc = "sar_done" /\ result.kind = "response" /\ is_coingecko) =>
             /\ Cooldowns = {Len(log)}
             /\ log[Len(log) - 1] = Resp(log[Len(log)].at, result.status)
             /\ result.status # HTTP_RATE_LIMITED
        /\ ~(pc = "sar_done" /\ result.kind = "response" /\ is_coingecko) => Cooldowns = {}
        /\ \A i \in RateLimitedResponses : i + 1 \notin Cooldowns

\* C14 witness: with is_coingecko, a 429 and then a 200, returned after the cooldown
C14_Witness ==
    /\ pc = "sar_done"
    /\ is_coingecko
    /\ result = ReturnedResponse(HTTP_OK)
    /\ RateLimitedResponses # {}
    /\ log[Len(log)] = Sleep(1, 15)

\* C17: without is_coingecko, a call all of whose max_retries attempts are
\* answered with a 429 sleeps after each of them, the last one too:
\* RATE_LIMIT_RETRY_DELAY * (2^max_retries - 1) in all (35 s for three), and
\* returns None; a call all of whose attempts end in a transport fault does
\* not sleep after the last one: RATE_LIMIT_DELAY * (max_retries - 1) in all.
C17_SleepAfterLast429 ==
    (pc = "sar_done" /\ ~is_coingecko /\ max_retries > 0) =>
        /\ Cardinality(RateLimitedResponses) = max_retries =>
             /\ result = ReturnedNone
             /\ log[Len(log)] =
                    Sleep(max_retries - 1, RATE_LIMIT_RETRY_DELAY * Pow2(max_retries - 1))
             /\ Cardinality(At("sleep")) = max_retries
             /\ SleepTotal(log) = RATE_LIMIT_RETRY_DELAY * (Pow2(max_retries) - 1)
             /\ max_retries = 3 => SleepTotal(log) = 350
        /\ Cardinality(At("fault")) = max_retries =>
             /\ result = ReturnedNone
             /\ log[Len(log)].ev = "fault"
             /\ Cardinality(At("sleep")) = max_retries - 1
             /\ SleepTotal(log) = RATE_LIMIT_DELAY * (max_retries - 1)

\* C17 witness: three attempts, three 429, 35 s of sleep, None
C17_Witness ==
    /\ pc = "sar_done"
    /\ ~is_coingecko
    /\ max_retries = 3
    /\ Cardinality(RateLimitedResponses) = 3
    /\ SleepTotal(log) = 350
    /\ result = ReturnedNone

\* C18: with is_coingecko, between a 429 on attempt k and the request of
\* attempt k + 1 there are exactly two sleeps, RATE_LIMIT_RETRY_DELAY * 2^k
\* and 3 * (k + 1) seconds; between a transport fault on attempt k and the
\* request of attempt k + 1 exactly two, RATE_LIMIT_DELAY and 3 * (k + 1)
\* seconds.
C18_DelaysAddUp ==
    (InSafeApiRequest /\ is_coingecko) =>
        \A j \in At("get") :
            LET k == log[j].at - 1 IN
            k >= 0 =>
                /\ j > 3
                /\ log[j - 3].at = k
                /\ log[j - 3].ev \in {"resp", "fault"}
                /\ log[j - 2].ev = "sleep" /\ log[j - 1].ev = "sleep"
                /\ log[j - 3].ev = "resp" =>
                     /\ log[j - 3].n = HTTP_RATE_LIMITED
                     /\ log[j - 2].n + log[j - 1].n =
                            RATE_LIMIT_RETRY_DELAY * Pow2(k) + 30 * (k + 1)
                /\ log[j - 3].ev = "fault" =>
                     log[j - 2].n + log[j - 1].n = RATE_LIMIT_DELAY + 30 * (k + 1)

\* C18 witness: with is_coingecko, a 429 on attempt 0 and a fault on attempt
\* 1, then the third request: 5 + 3 s before the second, 2 + 6 s before the third
C18_Witness ==
    /\ is_coingecko
    /\ Len(log) >= 9
    /\ log[2] = Resp(0, HTTP_RATE_LIMITED)
    /\ log[3].n + log[4].n = 80
    /\ log[5].ev = "get"
    /\ log[6] = Fault(1)
    /\ log[7].n + log[8].n = 80
    /\ log[9].ev = "get"

\* C19: a call that has started returns; by then it has issued at most
\* max_retries requests and slept at most 2 * max_retries times; with
\* max_retries = 0 it returns None and does nothing; the attempts of every
\* call are numbered from 0, whatever earlier calls did.
C19_TerminatesBoundedFresh ==
    /\ [](InSafeApiRequest =>
            /\ Cardinality(At("get")) <= max_retries
            /\ Cardinality(At("sleep")) <= 2 * max_retries
            /\ \A i \in At("get") : log[i].at = Cardinality({j \in At("get") : j < i})
            /\ (pc = "sar_done" /\ max_retries = 0) => (result = ReturnedNone /\ log = <<>>))
    /\ [][(pc = "idle" /\ pc' = "sar_loop") => (attempt' = 0 /\ log' = <<>>)]_vars
    /\ (pc = "sar_loop" ~> pc = "sar_done")

\* C19 witness: with is_coingecko, three requests and five sleeps
C19_Witness ==
    /\ pc = "sar_done"
    /\ is_coingecko
    /\ max_retries = 3
    /\ Cardinality(At("get")) = 3
    /\ Cardinality(At("sleep")) = 5

-----------------------------------------------------------------------------
(* A further claim about fetch_pool_chart_data, checked under SpecFetch. *)

\* C16: _process_timestamp_column tries the epoch-seconds interpretation
\* first and the generic one only after the first failed, directly after it;
\* when neither parses, the call returns None: it does not raise, nothing is
\* filtered and no table is returned.
C16_EpochThenGenericElseNone ==
    pc = "fpc_done" =>
        LET epoch == At("parse_epoch")
            generic == At("parse_generic")
            kind == response.body.tskind
        IN  /\ Cardinality(epoch) <= 1 /\ Cardinality(generic) <= 1
            /\ \A i \in generic : i - 1 \in epoch
            /\ epoch # {} => (generic # {} <=> kind # "epoch")
            /\ (epoch # {} /\ kind = "bad") =>
                 /\ result = ReturnedNone
                 /\ df = <<>>
                 /\ At("filter") = {}
            /\ At("filter") # {} => (result = ReturnedTable /\ kind \in {"epoch", "datestr", "tzstr"})

\* C16 witness: a 200 with two records whose timestamp is no number and no
\* date; both interpretations are tried, and the call returns None
C16_Witness ==
    /\ pc = "fpc_done"
    /\ response.status = HTTP_OK
    /\ response.body.tskind = "bad"
    /\ Len(response.body.ts) = 2
    /\ At("parse_epoch") # {}
    /\ At("parse_generic") # {}
    /\ result = ReturnedNone

====
